---- MODULE Spec2Model ----
(***************************************************************************)
(* A model of src/CausalModule.py: the CausalModule pipeline object, its   *)
(* six pipeline fields and the stage methods that read and write them.     *)
(*                                                                         *)
(* The statistical libraries (causal-learn, dowhy, networkx) are external. *)
(* Every call into them is a nondeterministic choice between raising and   *)
(* returning one value of a small menu; networkx's add_edges_from and      *)
(* remove_edges_from, which decide the prior-knowledge behaviour, are      *)
(* modelled by what they do.  Each action is one whole method call; the    *)
(* history variable `last` records what the latest call did (arguments,    *)
(* backend calls in order, outcome, return value, warning).                *)
(*                                                                         *)
(* Spec is every interleaving of the stage methods on one pipeline object. *)
(* SpecDiscover is one find_causal_graph call on every prior-knowledge     *)
(* argument, made on a fresh pipeline or after input_causal_graph:         *)
(* `pending` holds the arguments drawn for that call.                      *)
(* SpecEstimate is one estimate_effect call on every pair of configured    *)
(* and passed reference values.  `graph_obj` names the object self.graph   *)
(* refers to, so that binding another object and editing the held one in   *)
(* place are different steps.                                              *)
(***************************************************************************)
EXTENDS Integers, Sequences, FiniteSets, TLC

\* Longest `required` / `forbidden` list a caller passes in prior knowledge.
MaxPkLen == 1

VARIABLES
    data, discovery_algorithm, treatment_variable, outcome_variable,
    treatment_value, control_value,
    graph, graph_ref, model, estimand, estimate, est_ref,
    graph_obj, last, pending

config == <<data, discovery_algorithm, treatment_variable, outcome_variable,
            treatment_value, control_value>>
fields == <<graph, graph_ref, model, estimand, estimate, est_ref>>
vars == <<config, fields, graph_obj, last, pending>>

----------------------------------------------------------------------------
\* Values

\* Python's None.
None == [kind |-> "None"]

\* list(self.data.columns): the dataset's column names.
Columns == {"X", "Y"}

\* The dataset a pipeline is constructed with: a pandas DataFrame.  The
\* constructor's default is None.
DataFrame == [kind |-> "DataFrame", columns |-> Columns]

\* Which object self.graph refers to: 0 when it is None, otherwise the name
\* 1 or 2 of the graph object.  Two names tell apart the object held before
\* a call from the one held after it: an object bound to self.graph by an
\* assignment takes the name the object held so far does not have, and an
\* object changed in place keeps its name.
NoObject == 0
NewObject(held) == IF held = 1 THEN 2 ELSE 1

\* A name that is not a column of the dataset.
NotAColumn == "W"

\* A networkx DiGraph: a node set and a set of directed edges.
DiGraph(n, e) == [kind |-> "DiGraph", nodes |-> n, edges |-> e]

\* Whether some node reaches itself along the edges e.
RECURSIVE Reach(_, _, _)
Reach(e, frontier, seen) ==
    LET next == {v \in {p[2] : p \in e} : \E u \in frontier : <<u, v>> \in e}
    IN  IF next \subseteq seen THEN seen
        ELSE Reach(e, next \ seen, seen \cup next)

HasCycle(g) == \E u \in g.nodes : u \in Reach(g.edges, {u}, {})

\* What a discovery backend hands back once normalised (pdag2dag and
\* genG_to_nx, or the LiNGAM adjacency matrix): a DAG over the columns.
DiscoveredGraphs ==
    {DiGraph(Columns, e) : e \in {s \in SUBSET (Columns \X Columns) :
                                      ~HasCycle(DiGraph(Columns, s))}}

\* A Python str and a Python int.
PyStr(s) == [kind |-> "str", val |-> s]
PyInt(i) == [kind |-> "int", val |-> i]
PyBool(b) == [kind |-> "bool", val |-> b]

\* The attribute dict of a (u, v, data) edge entry.
EdgeData == [kind |-> "dict"]

\* Python's None where an edge entry names a node (nodes are strings here).
NoneAsNode == "None"

\* The entries a caller puts in a prior-knowledge edge list: an edge
\* between columns, an edge to a name that is no column, a malformed
\* 1-tuple, an edge with an attribute dict, an edge whose third item is
\* no dict, and an edge from None.
EdgeItems ==
    {<<"X", "Y">>, <<"X", NotAColumn>>, <<"X">>, <<"X", "Y", EdgeData>>,
     <<"X", NotAColumn, PyInt(5)>>, <<NoneAsNode, "Y">>}

EdgeLists == UNION {[1..k -> EdgeItems] : k \in 0..MaxPkLen}

\* The edge (u, v) an entry of two or three items names.
Edge(e) == <<e[1], e[2]>>

\* A prior-knowledge argument that is not a dict (a string, say).
NotADict == PyStr("required")

PkKeys == {"required", "forbidden", "other"}

\* pk: None, a non-dict, or a dict with any of the keys.  The value under
\* required and under forbidden is a list of edge entries, or, for the keys
\* in not_iterable, a value that cannot be iterated (None, say).
PriorKnowledge ==
    {None, NotADict} \cup
    {d \in [kind : {"dict"}, keys : SUBSET PkKeys,
            required : EdgeLists, forbidden : EdgeLists,
            not_iterable : SUBSET {"required", "forbidden"}] :
        /\ d.not_iterable \subseteq d.keys
        /\ ("required" \notin d.keys \ d.not_iterable => d.required = <<>>)
        /\ ("forbidden" \notin d.keys \ d.not_iterable
                => d.forbidden = <<>>)}

\* The algo argument: the three identifiers matched, and one that is not.
Algorithms == {"pc", "ges", "icalingam"}
AlgoArgs == Algorithms \cup {"fci"}

\* A backend call that raises.
Raise == [kind |-> "raise"]

\* What falsify_graph returns: an evaluation record with suggested edges.
GraphRefutations ==
    {[kind |-> "EvaluationResult", suggestions |-> s] :
        s \in {{}, {<<"X", "Y">>}}}

----------------------------------------------------------------------------
\* networkx

\* DiGraph.add_edges_from(eb) on g: each entry in turn.  A 2-tuple (u, v)
\* and a 3-tuple (u, v, data) add the node u, then the node v, and then the
\* edge; None as u raises at once and None as v after u was added; with a
\* data item that is no dict the nodes are added and updating the edge's
\* attributes raises before the edge is stored; an entry of any other
\* length raises at once.  What earlier entries added stays.
RECURSIVE add_edges_from(_, _)
add_edges_from(g, eb) ==
    IF eb = <<>> THEN [graph |-> g, ok |-> TRUE]
    ELSE LET e == Head(eb) IN
         IF Len(e) \notin {2, 3} THEN [graph |-> g, ok |-> FALSE]
         ELSE IF e[1] = NoneAsNode THEN [graph |-> g, ok |-> FALSE]
         ELSE IF e[2] = NoneAsNode
         THEN [graph |-> DiGraph(g.nodes \cup {e[1]}, g.edges), ok |-> FALSE]
         ELSE IF Len(e) = 3 /\ e[3].kind # "dict"
         THEN [graph |-> DiGraph(g.nodes \cup {e[1], e[2]}, g.edges),
               ok |-> FALSE]
         ELSE add_edges_from(
                  DiGraph(g.nodes \cup {e[1], e[2]}, g.edges \cup {Edge(e)}),
                  Tail(eb))

\* DiGraph.remove_edges_from(eb) on g: each entry in turn; `u, v = e[:2]`
\* raises on a 1-tuple and ignores a third item; an edge not in the graph
\* (one naming None included) is skipped silently; nodes stay.
RECURSIVE remove_edges_from(_, _)
remove_edges_from(g, eb) ==
    IF eb = <<>> THEN [graph |-> g, ok |-> TRUE]
    ELSE LET e == Head(eb) IN
         IF Len(e) < 2 THEN [graph |-> g, ok |-> FALSE]
         ELSE remove_edges_from(DiGraph(g.nodes, g.edges \ {Edge(e)}),
                                Tail(eb))

----------------------------------------------------------------------------
\* The pipeline object

\* What one method call did: its name and arguments, the backend calls it
\* made in order, whether it returned or raised, what it returned, and
\* whether it logged a warning.
Call(op, args, calls, outcome, ret, warned) ==
    [op |-> op, args |-> args, calls |-> calls, outcome |-> outcome,
     ret |-> ret, warned |-> warned]

\* Python truthiness of a configured value: None and "" are false.
Truthy(x) == x # None /\ x # PyStr("")

\* CausalModule.__init__: the user input is kept, every pipeline field is
\* None.
InitFields ==
    /\ graph = None /\ graph_ref = None /\ model = None
    /\ graph_obj = NoObject
    /\ estimand = None /\ estimate = None /\ est_ref = None
    /\ last = Call("__init__", <<>>, <<>>, "returned", None, FALSE)

----------------------------------------------------------------------------
\* Discovery and prior knowledge

\* apply_prior_knowledge with the two blocks swapped: forbidden edges are
\* removed before required edges are added.
apply_prior_knowledge_forbidden_first(g, pk) ==
    IF pk = None THEN [graph |-> g, ok |-> TRUE]
    ELSE IF pk.kind # "dict" THEN [graph |-> g, ok |-> FALSE]
    ELSE
      LET forb == IF "forbidden" \in pk.keys
                  THEN IF g = None \/ "forbidden" \in pk.not_iterable
                       THEN [graph |-> g, ok |-> FALSE]
                       ELSE remove_edges_from(g, pk.forbidden)
                  ELSE [graph |-> g, ok |-> TRUE]
      IN  IF ~forb.ok THEN forb
          ELSE IF "required" \in pk.keys
               THEN IF forb.graph = None \/ "required" \in pk.not_iterable
                    THEN [graph |-> forb.graph, ok |-> FALSE]
                    ELSE add_edges_from(forb.graph, pk.required)
               ELSE forb

\* Lines 93-105 on the graph g that self.graph holds after the dispatch:
\* the isinstance check, then required edges, then forbidden edges, all in
\* place.  ok is FALSE when a statement raised (a method looked up on a None
\* graph, iterating a value that is no list, an entry the graph rejects);
\* graph is what self.graph holds at that point.
apply_prior_knowledge(g, pk) ==
    IF pk = None THEN [graph |-> g, ok |-> TRUE]
    ELSE IF pk.kind # "dict" THEN [graph |-> g, ok |-> FALSE]
    ELSE
      LET req == IF "required" \in pk.keys
                 THEN IF g = None \/ "required" \in pk.not_iterable
                      THEN [graph |-> g, ok |-> FALSE]
                      ELSE add_edges_from(g, pk.required)
                 ELSE [graph |-> g, ok |-> TRUE]
      IN  IF ~req.ok THEN req
          ELSE IF "forbidden" \in pk.keys
               THEN IF req.graph = None \/ "forbidden" \in pk.not_iterable
                    THEN [graph |-> req.graph, ok |-> FALSE]
                    ELSE remove_edges_from(req.graph, pk.forbidden)
               ELSE req

\* The argument taking precedence over the configured algorithm.
effective_algo_prefers_argument(algo) == algo

\* Lines 61-62: the configured algorithm, when there is one, replaces the
\* argument.
effective_algo(algo) ==
    IF Truthy(discovery_algorithm) THEN discovery_algorithm.val ELSE algo

\* find_causal_graph applying the prior knowledge to a copy of the graph
\* held and binding self.graph to that copy.
discover_result_edits_copy(g, a, pk, out) ==
    LET known == a \in Algorithms
        calls == IF known THEN <<[fn |-> a, labels |-> Columns]>> ELSE <<>>
    IN  IF known /\ out = Raise
        THEN [graph |-> g, ok |-> FALSE, calls |-> calls, assigned |-> FALSE]
        ELSE LET r == apply_prior_knowledge(IF known THEN out ELSE g, pk)
             IN  [graph |-> r.graph, ok |-> r.ok, calls |-> calls,
                  assigned |-> known \/ (pk # None /\ g # None)]

\* Lines 69-111 as a function of the graph held, the algorithm matched, pk
\* and the backend's outcome `out` (Raise or a discovered graph):
\* graph is self.graph when the method ends, calls the backend calls made,
\* assigned whether line 75, 80 or 91 bound self.graph to a new object (the
\* prior knowledge is applied by method calls on the object held, which
\* bind nothing).
discover_result(g, a, pk, out) ==
    LET known == a \in Algorithms
        calls == IF known THEN <<[fn |-> a, labels |-> Columns]>> ELSE <<>>
    IN  IF known /\ out = Raise
        THEN [graph |-> g, ok |-> FALSE, calls |-> calls, assigned |-> FALSE]
        ELSE LET r == apply_prior_knowledge(IF known THEN out ELSE g, pk)
             IN  [graph |-> r.graph, ok |-> r.ok, calls |-> calls,
                  assigned |-> known]

\* Lines 59-111.  Lines 66-67 read self.data.to_numpy() and
\* self.data.columns before the try block: without a dataset they raise
\* AttributeError, whatever the algorithm and the prior knowledge, and
\* nothing else happens.
find_causal_graph(algo, pk, out) ==
    LET r == discover_result(graph, effective_algo(algo), pk, out) IN
    /\ IF data = None
       THEN /\ UNCHANGED <<graph, graph_obj>>
            /\ last' = Call("find_causal_graph", [algo |-> algo, pk |-> pk],
                            <<>>, "raised", None, FALSE)
       ELSE /\ graph' = r.graph
            /\ graph_obj' = IF r.assigned THEN NewObject(graph_obj)
                            ELSE graph_obj
            /\ last' = Call("find_causal_graph", [algo |-> algo, pk |-> pk],
                            r.calls, IF r.ok THEN "returned" ELSE "raised",
                            IF r.ok THEN r.graph ELSE None, FALSE)
    /\ UNCHANGED <<config, graph_ref, model, estimand, estimate, est_ref>>

\* The graphs a caller hands to input_causal_graph.
InputGraphs == DiscoveredGraphs

\* The objects a caller can hand over with the value g: an object other
\* than the held one, or, when g is the value of the held graph, the held
\* object itself (the caller kept a reference to it, or got it back from
\* find_causal_graph).
GraphObjects(g) ==
    {NewObject(graph_obj)}
        \cup (IF graph # None /\ g = graph THEN {graph_obj} ELSE {})

\* input_causal_graph that also drops everything derived from the old graph.
input_causal_graph_resets_downstream(g, obj) ==
    /\ graph' = g
    /\ graph_obj' = obj
    /\ model' = None /\ estimand' = None /\ estimate' = None
    /\ est_ref' = None
    /\ last' = Call("input_causal_graph", [graph |-> g], <<>>, "returned",
                    None, FALSE)
    /\ UNCHANGED <<config, graph_ref>>

\* Line 115: self.graph is bound to the caller's graph object, the object
\* named obj with the value g.  Handing over the object already held leaves
\* self.graph referring to the same object.
input_causal_graph(g, obj) ==
    /\ graph' = g
    /\ graph_obj' = obj
    /\ last' = Call("input_causal_graph", [graph |-> g], <<>>, "returned",
                    None, FALSE)
    /\ UNCHANGED <<config, graph_ref, model, estimand, estimate, est_ref>>

----------------------------------------------------------------------------
\* Refinement

\* dowhy's apply_suggestions(graph, result): a new graph, the argument
\* without the edges the evaluation suggests removing; the argument itself
\* is not modified.
apply_suggestions(g, result) == DiGraph(g.nodes, g.edges \ result.suggestions)

\* refute_cgm_result with the `if apply_sugst` test dropped: suggestions are
\* applied on every call.
refute_cgm_result_ignores_flag(g, gr, apply_sugst, fo, ao) ==
    LET c1 == <<[fn |-> "falsify_graph", graph |-> g]>>
        c2 == c1 \o <<[fn |-> "apply_suggestions", graph |-> g, result |-> fo]>>
    IN  IF fo = Raise
        THEN [graph |-> g, graph_ref |-> gr, ok |-> FALSE, calls |-> c1]
        ELSE IF ao = Raise \/ g = None
        THEN [graph |-> g, graph_ref |-> fo, ok |-> FALSE, calls |-> c2]
        ELSE [graph |-> apply_suggestions(g, fo), graph_ref |-> fo,
              ok |-> TRUE, calls |-> c2]

\* refute_cgm_result with the suggestions applied to self.graph in place, so
\* that a raise while applying them leaves the edges already removed.
refute_cgm_result_in_place(g, gr, apply_sugst, fo, ao) ==
    LET c1 == <<[fn |-> "falsify_graph", graph |-> g]>>
        c2 == c1 \o <<[fn |-> "apply_suggestions", graph |-> g, result |-> fo]>>
    IN  IF fo = Raise
        THEN [graph |-> g, graph_ref |-> gr, ok |-> FALSE, calls |-> c1]
        ELSE IF ~apply_sugst
        THEN [graph |-> g, graph_ref |-> fo, ok |-> TRUE, calls |-> c1]
        ELSE IF g = None
        THEN [graph |-> g, graph_ref |-> fo, ok |-> FALSE, calls |-> c2]
        ELSE [graph |-> apply_suggestions(g, fo), graph_ref |-> fo,
              ok |-> ao # Raise, calls |-> c2]

\* Lines 121-135 as a function of the fields, the apply_sugst flag and the
\* two backends' outcomes (fo: Raise or an evaluation record; ao: Raise or
\* "ok" for apply_suggestions, which cannot work on a missing graph).
refute_cgm_result(g, gr, apply_sugst, fo, ao) ==
    LET c1 == <<[fn |-> "falsify_graph", graph |-> g]>>
        c2 == c1 \o <<[fn |-> "apply_suggestions", graph |-> g, result |-> fo]>>
    IN  IF fo = Raise
        THEN [graph |-> g, graph_ref |-> gr, ok |-> FALSE, calls |-> c1]
        ELSE IF ~apply_sugst
        THEN [graph |-> g, graph_ref |-> fo, ok |-> TRUE, calls |-> c1]
        ELSE IF ao = Raise \/ g = None
        THEN [graph |-> g, graph_ref |-> fo, ok |-> FALSE, calls |-> c2]
        ELSE [graph |-> apply_suggestions(g, fo), graph_ref |-> fo,
              ok |-> TRUE, calls |-> c2]

refute_cgm(apply_sugst, fo, ao) ==
    LET r == refute_cgm_result(graph, graph_ref, apply_sugst, fo, ao) IN
    /\ graph' = r.graph
    /\ graph_obj' = IF r.ok /\ apply_sugst THEN NewObject(graph_obj)
                    ELSE graph_obj  \* line 129 binds what the backend returns
    /\ graph_ref' = r.graph_ref
    /\ last' = Call("refute_cgm", [apply_sugst |-> apply_sugst], r.calls,
                    IF r.ok THEN "returned" ELSE "raised",
                    IF r.ok THEN r.graph ELSE None, FALSE)
    /\ UNCHANGED <<config, model, estimand, estimate, est_ref>>

----------------------------------------------------------------------------
\* Model, identification, estimation, refutation

\* dowhy's CausalModel(data, treatment, outcome, graph).
CausalModel(t, o, g) ==
    [kind |-> "CausalModel", treatment |-> t, outcome |-> o, graph |-> g]

\* Lines 137-148: the constructor is called with whatever the fields hold;
\* out is Raise or "ok".  No try block: a raise leaves model as it was.
create_model_result(g, m, t, o, out) ==
    LET calls == <<[fn |-> "CausalModel", treatment |-> t, outcome |-> o,
                    graph |-> g]>>
    IN  IF out = Raise THEN [model |-> m, ok |-> FALSE, calls |-> calls]
        ELSE [model |-> CausalModel(t, o, g), ok |-> TRUE, calls |-> calls]

create_model(out) ==
    LET r == create_model_result(graph, model, treatment_variable,
                                 outcome_variable, out) IN
    /\ model' = r.model
    /\ last' = Call("create_model", <<>>, r.calls,
                    IF r.ok THEN "returned" ELSE "raised",
                    IF r.ok THEN r.model ELSE None, FALSE)
    /\ UNCHANGED <<config, graph, graph_obj, graph_ref,
                   estimand, estimate, est_ref>>

\* What model.identify_effect returns: an estimand with an estimand type,
\* an object without one, or None.
ValidEstimand ==
    [kind |-> "IdentifiedEstimand", estimand_type |-> "nonparametric-ate"]
UntypedEstimand == [kind |-> "object"]
Estimands == {ValidEstimand, UntypedEstimand, None}

\* hasattr(x, 'estimand_type')
HasEstimandType(x) == "estimand_type" \in DOMAIN x

IdentifyMethods == {None, PyStr("minimal-adjustment")}

\* identify_effect raising on a result that is None or has no estimand type,
\* keeping the earlier estimand.
identify_effect_result_rejects_invalid(m, es, method, out) ==
    LET calls == <<[fn |-> "identify_effect", method |-> method,
                    result |-> out]>> IN
    IF m = None
    THEN [estimand |-> es, ok |-> FALSE, calls |-> <<>>, warned |-> FALSE]
    ELSE IF out = Raise \/ out = None \/ ~HasEstimandType(out)
    THEN [estimand |-> es, ok |-> FALSE, calls |-> calls, warned |-> FALSE]
    ELSE [estimand |-> out, ok |-> TRUE, calls |-> calls, warned |-> FALSE]

\* Lines 154-174: self.model.identify_effect raises AttributeError on a
\* None model before any backend runs; otherwise the backend's result is
\* stored, and a warning logged when it is None or has no estimand type
\* (line 164: a message without arguments, always written).  The call
\* record keeps what the backend did: its result, or Raise.
identify_effect_result(m, es, method, out) ==
    LET calls == <<[fn |-> "identify_effect", method |-> method,
                    result |-> out]>> IN
    IF m = None
    THEN [estimand |-> es, ok |-> FALSE, calls |-> <<>>, warned |-> FALSE]
    ELSE IF out = Raise
    THEN [estimand |-> es, ok |-> FALSE, calls |-> calls, warned |-> FALSE]
    ELSE [estimand |-> out, ok |-> TRUE, calls |-> calls,
          warned |-> (out = None \/ ~HasEstimandType(out))]

identify_effect(method, out) ==
    LET r == identify_effect_result(model, estimand, method, out) IN
    /\ estimand' = r.estimand
    /\ last' = Call("identify_effect", [method |-> method], r.calls,
                    IF r.ok THEN "returned" ELSE "raised",
                    IF r.ok THEN r.estimand ELSE None, r.warned)
    /\ UNCHANGED <<config, graph, graph_obj, graph_ref,
                   model, estimate, est_ref>>

\* What model.estimate_effect returns.
Estimates == {[kind |-> "CausalEstimate", value |-> v] : v \in {2}}

EstimateMethods ==
    {"backdoor.linear_regression", "backdoor.propensity_score_matching"}

RefValues == {None, PyInt(0), PyInt(1), PyBool(FALSE)}

\* A default taken whenever the argument is falsy, not only when it is None.
resolve_falsy(arg, configured) ==
    IF arg \in {None, PyInt(0), PyBool(FALSE)} THEN configured ELSE arg

\* Lines 180-183: an argument left None takes the configured value.
resolve(arg, configured) == IF arg = None THEN configured ELSE arg

\* estimate_effect keeping the held estimate when the method is not matched.
estimate_effect_result_keeps(m, es, et, method_cat, ctrl_val, trtm_val, out) ==
    LET calls == <<[fn |-> "estimate_effect", estimand |-> es,
                    method_name |-> method_cat, control_value |-> ctrl_val,
                    treatment_value |-> trtm_val]>>
    IN  IF method_cat # "backdoor.linear_regression"
        THEN [estimate |-> et, ok |-> TRUE, calls |-> <<>>]
        ELSE IF m = None
        THEN [estimate |-> et, ok |-> FALSE, calls |-> <<>>]
        ELSE IF out = Raise
        THEN [estimate |-> et, ok |-> FALSE, calls |-> calls]
        ELSE [estimate |-> out, ok |-> TRUE, calls |-> calls]

\* Lines 185-202: only 'backdoor.linear_regression' is matched; any other
\* method leaves the local estimate None, which is then stored.
estimate_effect_result(m, es, et, method_cat, ctrl_val, trtm_val, out) ==
    LET calls == <<[fn |-> "estimate_effect", estimand |-> es,
                    method_name |-> method_cat, control_value |-> ctrl_val,
                    treatment_value |-> trtm_val]>>
    IN  IF method_cat # "backdoor.linear_regression"
        THEN [estimate |-> None, ok |-> TRUE, calls |-> <<>>]
        ELSE IF m = None
        THEN [estimate |-> et, ok |-> FALSE, calls |-> <<>>]
        ELSE IF out = Raise
        THEN [estimate |-> et, ok |-> FALSE, calls |-> calls]
        ELSE [estimate |-> out, ok |-> TRUE, calls |-> calls]

estimate_effect(method_cat, ctrl_val, trtm_val, out) ==
    LET r == estimate_effect_result(model, estimand, estimate, method_cat,
                                    resolve(ctrl_val, control_value),
                                    resolve(trtm_val, treatment_value), out)
    IN
    /\ estimate' = r.estimate
    /\ last' = Call("estimate_effect",
                    [method_cat |-> method_cat, ctrl_val |-> ctrl_val,
                     trtm_val |-> trtm_val],
                    r.calls, IF r.ok THEN "returned" ELSE "raised",
                    IF r.ok THEN r.estimate ELSE None, FALSE)
    /\ UNCHANGED <<config, graph, graph_obj, graph_ref,
                   model, estimand, est_ref>>

\* What model.refute_estimate returns: a refutation with its significance.
Refutation(name, sig) ==
    [kind |-> "CausalRefutation", method |-> name,
     is_statistically_significant |-> sig]

Refuters == <<"placebo_treatment_refuter", "random_common_cause",
              "data_subset_refuter">>

RefuteMethods ==
    {Refuters[i] : i \in 1..3} \cup {"ALL", "bootstrap_refuter"}

\* One backend outcome per procedure: Raise, or its significance flag.
RefuteOutcomes ==
    [1..3 -> {Raise} \cup {[kind |-> "ok", significant |-> b] : b \in BOOLEAN}]

\* selected with the first two procedures of "ALL" swapped.
selected_reordered(method_name) ==
    IF method_name = "ALL" THEN <<2, 1, 3>>
    ELSE IF \E i \in 1..3 : Refuters[i] = method_name
    THEN <<CHOOSE i \in 1..3 : Refuters[i] = method_name>>
    ELSE <<>>

\* The procedures a selector runs, in order (lines 234-248).
selected(method_name) ==
    IF method_name = "ALL" THEN <<1, 2, 3>>
    ELSE IF \E i \in 1..3 : Refuters[i] = method_name
    THEN <<CHOOSE i \in 1..3 : Refuters[i] = method_name>>
    ELSE <<>>

\* logging.warning(msg, *args) with the module's file handler: the record is
\* written when msg % args succeeds, that is when there are no arguments or
\* as many placeholders as arguments; otherwise the handler reports the
\* formatting error on stderr, writes nothing and raises nothing.
logging_emits(placeholders, nargs) == nargs = 0 \/ placeholders = nargs

\* Lines 233-259.  self.model.refute_estimate raises AttributeError on a
\* None model; a procedure that raises ends the call; a selector that is
\* not matched leaves ref None, and ref.refutation_result then raises.
\* Line 251 passes the p-value to a message without a placeholder.
refute_estimate_result(m, es, et, er, method_name, outs) ==
    LET sel == selected(method_name)
        call(i) == [fn |-> "refute_estimate", estimand |-> es,
                    estimate |-> et, method_name |-> Refuters[i]]
        \* the procedures run: up to and including the first that raises
        nrun == IF m = None THEN 0
                ELSE IF \E k \in 1..Len(sel) : outs[sel[k]] = Raise
                THEN CHOOSE k \in 1..Len(sel) :
                        /\ outs[sel[k]] = Raise
                        /\ \A j \in 1..(k-1) : outs[sel[j]] # Raise
                ELSE Len(sel)
        calls == [k \in 1..nrun |-> call(sel[k])]
        failed == \/ sel = <<>>
                  \/ m = None
                  \/ \E k \in 1..Len(sel) : outs[sel[k]] = Raise
        refs == [k \in 1..Len(sel) |-> Refutation(Refuters[sel[k]],
                                               outs[sel[k]].significant)]
        ref == IF method_name = "ALL" THEN [kind |-> "list", items |-> refs]
               ELSE refs[1]
    IN  IF failed
        THEN [est_ref |-> er, ok |-> FALSE, calls |-> calls, warned |-> FALSE]
        ELSE [est_ref |-> ref, ok |-> TRUE, calls |-> calls,
              warned |-> /\ ref.kind # "list"
                         /\ ref.is_statistically_significant
                         /\ logging_emits(0, 1)]

refute_estimate(method_name, outs) ==
    LET r == refute_estimate_result(model, estimand, estimate, est_ref,
                                    method_name, outs) IN
    /\ est_ref' = r.est_ref
    /\ last' = Call("refute_estimate", [method_name |-> method_name], r.calls,
                    IF r.ok THEN "returned" ELSE "raised",
                    IF r.ok THEN r.est_ref ELSE None, r.warned)
    /\ UNCHANGED <<config, graph, graph_obj, graph_ref,
                   model, estimand, estimate>>

\* The dict of lines 262-267 with two of its values exchanged.
snapshot_swapped(g, gr, es, et, er) ==
    [graph |-> g, graph_refutation_res |-> gr, estimand_expression |-> et,
     effect_estimate |-> es, estimate_refutation_res |-> er]

\* Lines 262-267: the dict get_all_information builds.
snapshot(g, gr, es, et, er) ==
    [graph |-> g, graph_refutation_res |-> gr, estimand_expression |-> es,
     effect_estimate |-> et, estimate_refutation_res |-> er]

get_all_information ==
    /\ last' = Call("get_all_information", <<>>, <<>>, "returned",
                    snapshot(graph, graph_ref, estimand, estimate, est_ref),
                    FALSE)
    /\ UNCHANGED <<config, fields, graph_obj>>

----------------------------------------------------------------------------
\* Every interleaving of the stage methods on one pipeline object, each on a
\* small menu of arguments and backend outcomes

XtoY == DiGraph(Columns, {<<"X", "Y">>})

\* Refutation outcomes of the interleavings: the procedures that return
\* agree on significance, and those after the first that raises (never run
\* under "ALL") raise too.
RefuteOutcomesCore ==
    {o \in RefuteOutcomes :
        /\ \A i, j \in 1..3 : (o[i] # Raise /\ o[j] # Raise) => o[i] = o[j]
        /\ \A i, j \in 1..3 : (i < j /\ o[i] = Raise) => o[j] = Raise}

Init ==
    /\ data = DataFrame
    /\ discovery_algorithm = None
    /\ treatment_variable \in {"X", NotAColumn}
    /\ outcome_variable = "Y"
    /\ treatment_value = PyInt(1)
    /\ control_value = None
    /\ InitFields
    /\ pending = None

Discover ==
    \E algo \in {"pc", "fci"}, pk \in {None, NotADict}, out \in {Raise, XtoY} :
        find_causal_graph(algo, pk, out) /\ UNCHANGED pending

InputGraph ==
    \E g \in {XtoY} : \E obj \in GraphObjects(g) :
        input_causal_graph(g, obj) /\ UNCHANGED pending

Refine ==
    \E b \in BOOLEAN,
       fo \in {Raise, [kind |-> "EvaluationResult",
                       suggestions |-> {<<"X", "Y">>}]},
       ao \in {Raise, [kind |-> "ok"]} :
        refute_cgm(b, fo, ao) /\ UNCHANGED pending

BuildModel ==
    \E out \in {Raise, [kind |-> "ok"]} : create_model(out) /\ UNCHANGED pending

Identify ==
    \E method \in IdentifyMethods, out \in {Raise} \cup Estimands :
        identify_effect(method, out) /\ UNCHANGED pending

Estimate ==
    \E method_cat \in EstimateMethods, ctrl_val \in {None, PyInt(0)},
       trtm_val \in {None}, out \in {Raise} \cup Estimates :
        estimate_effect(method_cat, ctrl_val, trtm_val, out) /\ UNCHANGED pending

Refute ==
    \E method_name \in RefuteMethods, outs \in RefuteOutcomesCore :
        refute_estimate(method_name, outs) /\ UNCHANGED pending

Snapshot == get_all_information /\ UNCHANGED pending

Next ==
    \/ Discover \/ InputGraph \/ Refine \/ BuildModel
    \/ Identify \/ Estimate \/ Refute \/ Snapshot

Spec == Init /\ [][Next]_vars

----------------------------------------------------------------------------
\* One find_causal_graph call on every algorithm and prior-knowledge
\* argument, on a fresh pipeline or after input_causal_graph

ConfiguredAlgorithms == {None, PyStr(""), PyStr("ges"), PyStr("fci")}

InitDiscover ==
    /\ data \in {None, DataFrame}
    /\ discovery_algorithm \in ConfiguredAlgorithms
    /\ treatment_variable = "X" /\ outcome_variable = "Y"
    /\ treatment_value = None /\ control_value = None
    /\ InitFields
    /\ pending \in [algo : AlgoArgs, pk : PriorKnowledge,
                     out : {Raise} \cup DiscoveredGraphs]
    \* a backend outcome is drawn only for a call that reaches a backend
    /\ (data = None \/ effective_algo(pending.algo) \notin Algorithms)
          => pending.out = Raise

InputGraphFirst ==
    /\ pending # None
    /\ graph = None
    /\ \E g \in InputGraphs : \E obj \in GraphObjects(g) :
          input_causal_graph(g, obj)
    /\ UNCHANGED pending

DiscoverPending ==
    /\ pending # None
    /\ find_causal_graph(pending.algo, pending.pk, pending.out)
    /\ pending' = None

NextDiscover == InputGraphFirst \/ DiscoverPending

SpecDiscover == InitDiscover /\ [][NextDiscover]_vars

----------------------------------------------------------------------------
\* One estimate_effect call on every combination of configured and passed
\* reference values, after a model was built and an estimand identified.
InitEstimate ==
    /\ data = DataFrame
    /\ discovery_algorithm = None
    /\ treatment_variable = "X" /\ outcome_variable = "Y"
    /\ treatment_value \in RefValues /\ control_value \in RefValues
    /\ InitFields
    /\ pending \in [method_cat : EstimateMethods, ctrl_val : RefValues,
                     trtm_val : RefValues, out : {Raise} \cup Estimates]

BuildModelFirst ==
    /\ pending # None
    /\ create_model([kind |-> "ok"])
    /\ UNCHANGED pending

IdentifyFirst ==
    /\ pending # None
    /\ identify_effect(None, ValidEstimand)
    /\ UNCHANGED pending

EstimatePending ==
    /\ pending # None
    /\ estimate_effect(pending.method_cat, pending.ctrl_val, pending.trtm_val,
                       pending.out)
    /\ pending' = None

NextEstimate == BuildModelFirst \/ IdentifyFirst \/ EstimatePending

SpecEstimate == InitEstimate /\ [][NextEstimate]_vars

----------------------------------------------------------------------------
\* Claims

\* C1: a call of estimate_effect made while the estimand field is None
\* raises, calls no estimation backend and leaves the estimate field as it
\* was.
C1_EstimateWithoutEstimandRaises ==
    [][(last'.op = "estimate_effect" /\ estimand = None)
        => /\ last'.outcome = "raised"
           /\ last'.calls = <<>>
           /\ estimate' = estimate]_vars

\* C2: a call of refute_estimate, whatever the selector, made while the
\* estimate field or the estimand field is None raises, calls no refutation
\* backend and leaves est_ref as it was.
C2_RefuteWithoutEstimateRaises ==
    [][(last'.op = "refute_estimate" /\ (estimate = None \/ estimand = None))
        => /\ last'.outcome = "raised"
           /\ last'.calls = <<>>
           /\ est_ref' = est_ref]_vars

\* C3: a call of create_model made while the graph field is None, or while
\* the treatment or the outcome variable is not a column, raises and leaves
\* the model field as it was.
C3_CreateModelChecksInputs ==
    [][(/\ last'.op = "create_model"
        /\ \/ graph = None
           \/ treatment_variable \notin Columns
           \/ outcome_variable \notin Columns)
        => /\ last'.outcome = "raised"
           /\ model' = model]_vars

\* C4: no backend call of any stage is handed a pipeline field that is
\* None: the model constructor is never given a None graph, estimate_effect
\* never a None estimand, refute_estimate never a None estimand or estimate.
C4_NoBackendCallOnUnsetField ==
    \A i \in 1..Len(last.calls) :
        LET c == last.calls[i] IN
        /\ c.fn = "CausalModel" => c.graph # None
        /\ c.fn = "estimate_effect" => c.estimand # None
        /\ c.fn = "refute_estimate" => (c.estimand # None /\ c.estimate # None)

\* The entries of a prior-knowledge edge list.
Range(seq) == {seq[i] : i \in 1..Len(seq)}

\* The latest call was find_causal_graph and it returned.
DiscoverReturned ==
    last.op = "find_causal_graph" /\ last.outcome = "returned"

\* C5: after find_causal_graph returns with prior knowledge, every forbidden
\* edge is absent from the graph, also one that is required as well, and
\* every required edge that is not forbidden is present.
C5_ForbiddenWinsOverRequired ==
    (DiscoverReturned /\ last.args.pk # None) =>
        LET pk == last.args.pk IN
        /\ \A e \in Range(pk.forbidden) : Edge(e) \notin graph.edges
        /\ \A e \in Range(pk.required) :
                (\A f \in Range(pk.forbidden) : Edge(f) # Edge(e))
                    => Edge(e) \in graph.edges

\* A discovery backend ran, an edge was both required and forbidden, and
\* the call returned.
C5_Witness ==
    /\ DiscoverReturned /\ last.args.pk # None
    /\ last.calls # <<>>
    /\ \E e \in Range(last.args.pk.required),
          f \in Range(last.args.pk.forbidden) : Edge(e) = Edge(f)

\* C6: the graph find_causal_graph stores and returns after one of the
\* three discovery algorithms ran has exactly the columns as nodes and no
\* directed cycle, whatever prior knowledge was applied.
C6_DiscoveredGraphIsDagOverColumns ==
    (DiscoverReturned /\ last.calls # <<>>) =>
        (graph.nodes = Columns /\ ~HasCycle(graph))

\* C7: find_causal_graph given prior knowledge that is not a dict, or a
\* dict with a key other than required and forbidden, raises.
C7_MalformedPriorKnowledgeRaises ==
    (/\ last.op = "find_causal_graph"
     /\ last.args.pk # None
     /\ \/ last.args.pk.kind # "dict"
        \/ ~(last.args.pk.keys \subseteq {"required", "forbidden"}))
    => last.outcome = "raised"

\* C8: a find_causal_graph call that raises leaves the graph field exactly
\* as it was before the call.
C8_FailedDiscoverKeepsGraph ==
    [][(last'.op = "find_causal_graph" /\ last'.outcome = "raised")
        => graph' = graph]_vars

\* C9: a refute_cgm call that returns stores a non-None refutation record
\* in graph_ref; with apply_sugst false the graph is as before the call,
\* with apply_sugst true it is apply_suggestions of the graph before the
\* call and that same record.
C9_RefineAppliesSuggestionsOnlyOnRequest ==
    [][(last'.op = "refute_cgm" /\ last'.outcome = "returned")
        => /\ graph_ref' # None
           /\ graph_ref'.kind = "EvaluationResult"
           /\ IF last'.args.apply_sugst
              THEN /\ last'.calls[2].fn = "apply_suggestions"
                   /\ last'.calls[2].result = graph_ref'
                   /\ graph' = apply_suggestions(graph, graph_ref')
              ELSE graph' = graph]_vars

\* refute_cgm returned after applying suggestions that changed the graph.
C9_Witness ==
    /\ last.op = "refute_cgm" /\ last.outcome = "returned"
    /\ last.args.apply_sugst
    /\ graph_ref # None
    /\ graph # last.calls[1].graph

\* C10: a refute_cgm call that raises, in falsify_graph or in
\* apply_suggestions, leaves the graph field as it was before the call.
C10_FailedRefineKeepsGraph ==
    [][(last'.op = "refute_cgm" /\ last'.outcome = "raised")
        => graph' = graph]_vars

\* refute_cgm raised in apply_suggestions, after falsify_graph had returned
\* a record with suggestions for the graph held.
C10_Witness ==
    /\ last.op = "refute_cgm" /\ last.outcome = "raised"
    /\ Len(last.calls) = 2
    /\ graph # None
    /\ last.calls[2].result.suggestions \cap graph.edges # {}

\* C11: a refute_estimate call that returns under "ALL" has called the three
\* procedures once each, in the order placebo treatment, random common
\* cause, data subset, each with the held estimand and estimate, and stores
\* and returns the list of their three results in that order; under a
\* single selector it has called that procedure alone and stores and
\* returns its one result, not a list.
C11_RefuteAllRunsThreeInOrder ==
    (last.op = "refute_estimate" /\ last.outcome = "returned") =>
        /\ last.ret = est_ref
        /\ \A i \in 1..Len(last.calls) :
              /\ last.calls[i].estimand = estimand
              /\ last.calls[i].estimate = estimate
        /\ IF last.args.method_name = "ALL"
           THEN /\ Len(last.calls) = 3
                /\ \A i \in 1..3 : last.calls[i].method_name = Refuters[i]
                /\ est_ref.kind = "list"
                /\ Len(est_ref.items) = 3
                /\ \A i \in 1..3 : est_ref.items[i].method = Refuters[i]
           ELSE /\ Len(last.calls) = 1
                /\ last.calls[1].method_name = last.args.method_name
                /\ est_ref.kind = "CausalRefutation"
                /\ est_ref.method = last.args.method_name

\* refute_estimate returned under "ALL" with an estimand and an estimate
\* held.
C11_Witness ==
    /\ last.op = "refute_estimate" /\ last.outcome = "returned"
    /\ last.args.method_name = "ALL"
    /\ estimand = ValidEstimand /\ estimate # None
    /\ est_ref.kind = "list"

\* C12: get_all_information changes no pipeline field and no configured
\* value, and returns exactly the values the five fields graph, graph_ref,
\* estimand, estimate and est_ref hold, None included; as the fields after
\* the call are those before it, a second call right after returns the same
\* dict.
C12_SnapshotIsPureRead ==
    [][last'.op = "get_all_information"
        => /\ fields' = fields
           /\ config' = config
           /\ last'.outcome = "returned"
           /\ last'.calls = <<>>
           /\ DOMAIN last'.ret = {"graph", "graph_refutation_res",
                                  "estimand_expression", "effect_estimate",
                                  "estimate_refutation_res"}
           /\ last'.ret.graph = graph
           /\ last'.ret.graph_refutation_res = graph_ref
           /\ last'.ret.estimand_expression = estimand
           /\ last'.ret.effect_estimate = estimate
           /\ last'.ret.estimate_refutation_res = est_ref
           /\ (last.op = "get_all_information" => last'.ret = last.ret)]_vars

\* get_all_information was called with a graph, an estimand and an estimate
\* held and no refutation yet.
C12_Witness ==
    /\ last.op = "get_all_information"
    /\ last.ret.graph # None
    /\ last.ret.estimand_expression = ValidEstimand
    /\ last.ret.effect_estimate # None
    /\ last.ret.estimate_refutation_res = None

\* C13: the control and the treatment reference value handed to the
\* estimation backend are resolved each on its own: a passed value other than
\* None (0 and False included) is handed on as is, a None argument is replaced
\* by the configured value, which may itself be None; no estimate_effect call
\* changes the configured treatment_value or control_value.
C13_ReferenceValuesResolvedIndependently ==
    [][last'.op = "estimate_effect"
        => /\ config' = config
           /\ \A i \in 1..Len(last'.calls) :
                 /\ last'.calls[i].control_value =
                       (IF last'.args.ctrl_val # None
                        THEN last'.args.ctrl_val ELSE control_value)
                 /\ last'.calls[i].treatment_value =
                       (IF last'.args.trtm_val # None
                        THEN last'.args.trtm_val ELSE treatment_value)]_vars

\* The backend was called with a passed control value False over a configured
\* 1, and with the configured treatment value 1 for an omitted argument.
C13_Witness ==
    /\ last.op = "estimate_effect" /\ Len(last.calls) = 1
    /\ control_value = PyInt(1) /\ treatment_value = PyInt(1)
    /\ last.args.ctrl_val = PyBool(FALSE) /\ last.args.trtm_val = None
    /\ last.calls[1].control_value = PyBool(FALSE)
    /\ last.calls[1].treatment_value = PyInt(1)

\* C14 as stated: a backend result that is None or has no estimand type
\* makes identify_effect warn, store the result and return it, and
\* identify_effect raises only when the backend itself raised, the estimand
\* then keeping its value.  Violated: on a pipeline without a model the call
\* raises although no backend was called.
C14_IdentifyRaisesOnlyWhenBackendRaises ==
    [][last'.op = "identify_effect"
        => /\ \A i \in 1..Len(last'.calls) :
                 last'.calls[i].result # Raise
                    => /\ last'.outcome = "returned"
                       /\ last'.ret = last'.calls[i].result
                       /\ estimand' = last'.calls[i].result
                       /\ (last'.ret = None \/ ~HasEstimandType(last'.ret))
                             => last'.warned
           /\ last'.outcome = "raised"
                 => /\ Len(last'.calls) = 1
                    /\ last'.calls[1].result = Raise
                    /\ estimand' = estimand]_vars

\* C14, amended: a backend result that is None or has no estimand type makes
\* identify_effect warn, store the result as the estimand and return it
\* without raising; identify_effect raises only when the backend raised or
\* when no model is held (then no backend is called), and in both cases the
\* estimand keeps its value.
C14_InvalidEstimandWarnedAndStored ==
    [][last'.op = "identify_effect"
        => /\ \A i \in 1..Len(last'.calls) :
                 last'.calls[i].result # Raise
                    => /\ last'.outcome = "returned"
                       /\ last'.ret = last'.calls[i].result
                       /\ estimand' = last'.calls[i].result
                       /\ (last'.ret = None \/ ~HasEstimandType(last'.ret))
                             => last'.warned
           /\ last'.outcome = "raised"
                 => /\ \/ model = None /\ last'.calls = <<>>
                       \/ /\ Len(last'.calls) = 1
                          /\ last'.calls[1].result = Raise
                    /\ estimand' = estimand]_vars

\* identify_effect returned a result without an estimand type, warned, and
\* that result is the estimand now held.
C14_Witness ==
    /\ last.op = "identify_effect" /\ last.outcome = "returned"
    /\ Len(last.calls) = 1
    /\ last.calls[1].result = UntypedEstimand
    /\ last.ret = UntypedEstimand /\ estimand = UntypedEstimand
    /\ last.warned

\* C15 as stated: a refute_estimate call that returns stores and returns its
\* result and leaves estimate, estimand and model alone, and it emits a
\* warning exactly when the result is a single one whose significance flag
\* is true.  Violated: the warning of a significant single result is never
\* written.
C15_SignificantSingleResultWarns ==
    [][(last'.op = "refute_estimate" /\ last'.outcome = "returned")
        => /\ est_ref' = last'.ret
           /\ estimate' = estimate /\ estimand' = estimand /\ model' = model
           /\ last'.warned <=> /\ est_ref'.kind # "list"
                               /\ est_ref'.is_statistically_significant]_vars

\* C16 as stated: a stage call that raises leaves the fields that stage
\* writes at their values before the call: refute_cgm leaves graph and
\* graph_ref, identify_effect estimand, estimate_effect estimate and
\* refute_estimate est_ref; and it changes no field of another stage.
\* Violated: refute_cgm stores the falsification result before applying the
\* suggestions raises.
C16_FailedStageKeepsItsFields ==
    [][(last'.outcome = "raised"
          /\ last'.op \in {"refute_cgm", "identify_effect", "estimate_effect",
                           "refute_estimate"})
        => fields' = fields]_vars

\* C17: in every order of calls each stage changes only its own fields:
\* find_causal_graph and input_causal_graph only graph, refute_cgm only
\* graph_ref and graph, create_model only model, identify_effect only
\* estimand, estimate_effect only estimate, refute_estimate only est_ref,
\* get_all_information nothing; so model, estimand, estimate and est_ref
\* survive a repeated upstream stage, and model changes in a create_model
\* call only.
C17_StageWritesOnlyItsOwnFields ==
    [][/\ last'.op \in {"find_causal_graph", "input_causal_graph"}
            => UNCHANGED <<graph_ref, model, estimand, estimate, est_ref>>
       /\ last'.op = "refute_cgm"
            => UNCHANGED <<model, estimand, estimate, est_ref>>
       /\ last'.op = "create_model"
            => UNCHANGED <<graph, graph_ref, estimand, estimate, est_ref>>
       /\ last'.op = "identify_effect"
            => UNCHANGED <<graph, graph_ref, model, estimate, est_ref>>
       /\ last'.op = "estimate_effect"
            => UNCHANGED <<graph, graph_ref, model, estimand, est_ref>>
       /\ last'.op = "refute_estimate"
            => UNCHANGED <<graph, graph_ref, model, estimand, estimate>>
       /\ last'.op = "get_all_information" => UNCHANGED fields
       /\ model' # model => last'.op = "create_model"]_vars

\* A graph was supplied again after a full run: model, estimand, estimate
\* and refutation are all still held.
C17_Witness ==
    /\ last.op = "input_causal_graph"
    /\ model # None /\ estimand # None /\ estimate # None /\ est_ref # None
    /\ graph # model.graph

\* C18: estimate_effect with a method other than
\* 'backdoor.linear_regression' raises nothing and calls no backend: it
\* returns None and stores None in estimate, whatever estimate was held.
C18_UnmatchedMethodStoresNone ==
    [][(/\ last'.op = "estimate_effect"
        /\ last'.args.method_cat # "backdoor.linear_regression")
        => /\ last'.outcome = "returned"
           /\ last'.calls = <<>>
           /\ last'.ret = None
           /\ estimate' = None]_vars

\* estimate_effect with an unmatched method returned on a pipeline with a
\* model, an estimand and a refutation of an earlier estimate: no estimate
\* is held any more.
C18_Witness ==
    /\ last.op = "estimate_effect"
    /\ last.args.method_cat = "backdoor.propensity_score_matching"
    /\ last.outcome = "returned" /\ last.ret = None
    /\ model # None /\ estimand = ValidEstimand /\ est_ref # None
    /\ estimate = None

\* A required entry the graph's add_edges_from raises on: neither (u, v)
\* nor (u, v, data), or naming None as a node, or with data that is no dict.
RejectedRequired(e) ==
    \/ Len(e) \notin {2, 3}
    \/ e[1] = NoneAsNode \/ e[2] = NoneAsNode
    \/ (Len(e) = 3 /\ e[3].kind # "dict")

\* Prior knowledge that raises on every graph: not a dict, or with a value
\* under required or forbidden that is no list, or with a required entry
\* add_edges_from raises on, or a forbidden entry of fewer than two items.
Malformed(pk) ==
    \/ pk.kind # "dict"
    \/ pk.not_iterable # {}
    \/ \E e \in Range(pk.required) : RejectedRequired(e)
    \/ \E e \in Range(pk.forbidden) : Len(e) < 2

\* Prior knowledge that makes the call look up a method on self.graph.
TouchesGraph(pk) ==
    pk.kind = "dict" /\ pk.keys \cap {"required", "forbidden"} # {}

\* What find_causal_graph does when the algorithm in effect is not one of
\* pc, ges, icalingam, whether it returns or raises: no backend is called
\* and self.graph is bound to no other object; without prior knowledge the
\* graph is untouched; a call that returns hands back the graph held, that
\* same object with the required edges (and their nodes) added and then the
\* forbidden ones removed.
UnknownAlgorithmKeepsGraph ==
    /\ last'.calls = <<>>
    /\ graph_obj' = graph_obj
    /\ last'.args.pk = None => graph' = graph
    /\ last'.outcome = "returned"
          => /\ last'.ret = graph'
             /\ graph = None => graph' = None
             /\ graph # None
                  => LET pk == last'.args.pk
                         req == IF pk = None THEN {}
                                ELSE {Edge(e) : e \in Range(pk.required)}
                         forb == IF pk = None THEN {}
                                 ELSE {Edge(e) : e \in Range(pk.forbidden)}
                     IN  /\ graph'.edges = (graph.edges \cup req) \ forb
                         /\ graph'.nodes =
                              graph.nodes \cup {e[1] : e \in req}
                                          \cup {e[2] : e \in req}

\* C19 as stated: with an algorithm outside pc, ges, icalingam in effect,
\* find_causal_graph calls no backend, keeps the graph object held and
\* applies the prior knowledge to it in place, and fails only if prior
\* knowledge is supplied while no graph is held.  Violated: the call fails
\* without a dataset, and with a graph held it fails on prior knowledge
\* that is not a dict or that the graph rejects.
C19_UnknownAlgorithmFailsOnlyWithoutGraph ==
    [][(/\ last'.op = "find_causal_graph"
        /\ effective_algo(last'.args.algo) \notin Algorithms)
        => /\ UnknownAlgorithmKeepsGraph
           /\ last'.outcome = "raised"
                 => last'.args.pk # None /\ graph = None]_vars

\* C19, amended: with an algorithm outside pc, ges, icalingam in effect,
\* find_causal_graph calls no backend, keeps the graph object held and
\* applies the prior knowledge to it in place, and fails exactly when no
\* dataset is held, or prior knowledge is supplied that is not a dict, or
\* that has a required or forbidden key while no graph is held, or whose
\* required or forbidden value the held graph raises on.
C19_UnknownAlgorithmAppliesPkToHeldGraph ==
    [][(/\ last'.op = "find_causal_graph"
        /\ effective_algo(last'.args.algo) \notin Algorithms)
        => /\ UnknownAlgorithmKeepsGraph
           /\ last'.outcome = "raised"
                <=> \/ data = None
                    \/ /\ last'.args.pk # None
                       /\ \/ Malformed(last'.args.pk)
                          \/ graph = None /\ TouchesGraph(last'.args.pk)]_vars

\* With "fci" in effect and a dataset held the call returned the graph
\* object supplied before, now carrying the required edge to a node that is
\* not a column.
C19_Witness ==
    /\ last.op = "find_causal_graph" /\ last.outcome = "returned"
    /\ data = DataFrame
    /\ effective_algo(last.args.algo) = "fci"
    /\ last.calls = <<>>
    /\ last.args.pk # None
    /\ last.args.pk.kind = "dict"
    /\ last.args.pk.required = << <<"X", NotAColumn>> >>
    /\ graph # None /\ graph_obj # NoObject
    /\ last.ret = graph
    /\ <<"X", NotAColumn>> \in graph.edges

\* C20: on a pipeline constructed with a discovery algorithm, every
\* find_causal_graph call dispatches on that algorithm whatever the algo
\* argument is; the argument selects the backend only when no algorithm is
\* configured (None, or the empty string, which line 61 treats alike).  A
\* call on a pipeline without a dataset fails before the dispatch and
\* reaches no backend, neither the configured one nor the argument's.
C20_ConfiguredAlgorithmOverridesArgument ==
    [][last'.op = "find_causal_graph"
        => LET a == IF discovery_algorithm \notin {None, PyStr("")}
                    THEN discovery_algorithm.val ELSE last'.args.algo
           IN  /\ discovery_algorithm' = discovery_algorithm
               /\ (data # None /\ a \in Algorithms)
                    => Len(last'.calls) = 1 /\ last'.calls[1].fn = a
               /\ (data = None \/ a \notin Algorithms)
                    => last'.calls = <<>>]_vars

\* A pipeline configured with "ges" was asked for "pc" and ran ges.
C20_Witness ==
    /\ last.op = "find_causal_graph" /\ last.outcome = "returned"
    /\ discovery_algorithm = PyStr("ges")
    /\ last.args.algo = "pc"
    /\ Len(last.calls) = 1 /\ last.calls[1].fn = "ges"

====
